---- MODULE Spec2Model ----
(***************************************************************************)
(* Model of the two p5.vida example sketches of src/unnamed/part_000:      *)
(*   - the "zones" sketch  (lines   1..401): active zones + oscillators,   *)
(*   - the "blobs" sketch  (lines 402..750): blob detection + background.  *)
(* Each handler of a sketch (draw, touchEnded, the video cue callback) is  *)
(* one atomic action: JavaScript runs a handler to completion.             *)
(*                                                                         *)
(* Units: normalized coordinates are integers in hundredths (0..100 for    *)
(* 0.0..1.0), video time is in milliseconds, oscillator amplitude is in    *)
(* tenths (1 for 0.1).  Calls made on the host framework, on the video, on *)
(* the detector and on the oscillators are recorded, in order, in `calls`  *)
(* (the calls of the most recent handler); calls that only set a drawing   *)
(* style (push, pop, stroke, fill, textFont, ...) are not recorded.        *)
(***************************************************************************)
EXTENDS Integers, Sequences, FiniteSets

VARIABLES
    sketch,                  \* "zones" or "blobs": which sketch is running
    myVideo,                 \* "undefined", "null" or "video"
    videoPlaying,            \* the video element is playing
    videoTime,               \* myVideo.time(), in milliseconds
    videoFrame,              \* what the detector sees in the frame the video shows
    interactionStartedFlag,  \* the playback gate
    activeZones,             \* myVida.activeZones (sequence of zone records)
    synth,                   \* amplitude of synth[i], at index i + 1, in tenths
    blobs,                   \* the detector's current blobs
    backgroundFrame,         \* time of the frame in VIDA's background buffer, or NoFrame
    detected,                \* what the last myVida.update produced for the zones
    synthBefore,             \* synth when the most recent handler was entered
    flagBefore,              \* interactionStartedFlag when it was entered
    started,                 \* the most recent handler called safeStartVideo
    calls,                   \* calls made by the most recent handler, in order
    handler,                 \* the most recent handler
    propagated               \* the most recent handler ended by an exception

vars == <<sketch, myVideo, videoPlaying, videoTime, videoFrame,
          interactionStartedFlag,
          activeZones, synth, blobs, backgroundFrame, detected, synthBefore,
          flagBefore, started, calls, handler, propagated>>

----------------------------------------------------------------------------
(* Bounds of the model *)

\* video time advances in steps of TimeStep milliseconds
TimeStep == 500
\* the video lasts MaxTicks steps, then loops back to time 0
MaxTicks == 3
\* at most MaxBlobs blobs are detected in one frame
MaxBlobs == 2
\* binary fractions are held with FracBits bits after the point
FracBits == 64

VideoDuration == MaxTicks * TimeStep

----------------------------------------------------------------------------
(* Program constants *)

\* createCanvas(640, 480)
width == 640
height == 480
\* var n = 5
n == 5
\* denominators of the units: hundredths for normalized coordinates
NormDen == 100
\* var padding = 0.07, zoneWidth = 0.1, zoneHeight = 0.5, vOffset = 0.25
padding == 7
zoneWidth == 10
zoneHeight == 50
vOffset == 25
\* var hOffset = (1.0 - (n * zoneWidth + (n - 1) * padding)) / 2.0
hOffset == (NormDen - (n * zoneWidth + (n - 1) * padding)) \div 2
\* amp(0.1 * flag): 0.1 in tenths
AmpOn == 1
\* myVideo.time() < 1, in milliseconds
PlayingTimeLimit == 1000
\* myVideo.addCue(0.1, touchEnded), in milliseconds
CueTime == 100
\* myVida.pointsPerApproximatedBlobPolygon = 8
pointsPerApproximatedBlobPolygon == 8
\* myVida.approximateBlobPolygonsFlag = true
approximateBlobPolygonsFlag == TRUE
\* var offset_x = 320; var offset_y = 240
offset_x == 320
offset_y == 240
\* the value isNaN() tests for; no number of the model
NaN == -1
\* no frame in the background buffer
NoFrame == -1

Call(f, s, a) == [f |-> f, s |-> s, a |-> a]

Prompt == "click or tap to start video playback"

----------------------------------------------------------------------------
(* The host framework and the video element *)

IsNaN(t) == t = NaN

\* variant: only null is tested for, undefined is taken for a video
IsNull(video) == video = "null"

IsMissing(video) == video = "null" \/ video = "undefined"

\* Number(flag) as used by 0.1 * flag
BoolToNumber(b) == IF b THEN 1 ELSE 0

\* variant: the scaled value is rounded up, Math.ceil(norm * size)
CeilScaled(k, size) == (k * size + NormDen - 1) \div NormDen

\* Math.floor(norm * size) for norm = k / NormDen
FloorScaled(k, size) == (k * size) \div NormDen

----------------------------------------------------------------------------
(* The zones sketch: setup *)

\* variant: the zones are numbered from 1
SetupZoneOneBased(i) ==
    [ id |-> i + 1,
      normX |-> hOffset + i * (zoneWidth + padding),
      normY |-> vOffset,
      normW |-> zoneWidth,
      normH |-> zoneHeight,
      isEnabledFlag |-> TRUE,
      isMovementDetectedFlag |-> FALSE,
      isChangedFlag |-> FALSE ]

SetupZone(i) ==
    [ id |-> i,
      normX |-> hOffset + i * (zoneWidth + padding),
      normY |-> vOffset,
      normW |-> zoneWidth,
      normH |-> zoneHeight,
      isEnabledFlag |-> TRUE,
      isMovementDetectedFlag |-> FALSE,
      isChangedFlag |-> FALSE ]

\* for(var i = 0; i < n; i++) myVida.addActiveZone(i, ...)
SetupZones == [k \in 1..n |-> SetupZone(k - 1)]

\* variant: the oscillators are started at their default amplitude, 0.5
SetupSynthNotSilenced == [k \in 1..n |-> 5 * AmpOn]

\* osc.amp(0.0); osc.start(); synth[i] = osc
SetupSynth == [k \in 1..n |-> 0]

----------------------------------------------------------------------------
(* The zones sketch: the rectangles of setup as JavaScript computes them.
   A number is a double; here it is a binary fraction below 2, a sequence of
   bits in which bit 1 is the units bit and bit j + 1 weighs 2^-j. *)

\* a double has 53 significant bits
SignificandBits == 53

BitsLen == FracBits + 1
\* the bits 1 to BitsLen of f as a sequence
BitsOf(f) == SubSeq(f, 1, BitsLen)

ZeroBits == BitsOf([j \in 1..BitsLen |-> 0])
OneBits == BitsOf([j \in 1..BitsLen |-> IF j = 1 THEN 1 ELSE 0])

\* a + b, exact (the sum is below 2); a carry comes into bit j from the
\* nearest lower bit where both have a 1, through bits where one has a 1
SumBits(a, b) ==
    BitsOf([j \in 1..BitsLen |->
        (a[j] + b[j]
         + (IF \E i \in (j + 1)..BitsLen :
                   /\ a[i] + b[i] = 2
                   /\ \A m \in (j + 1)..(i - 1) : a[m] + b[m] = 1
            THEN 1 ELSE 0)) % 2])

\* the same, each operand computed once
AddBits(x, y) == CHOOSE r \in { SumBits(a, b) : a \in {x}, b \in {y} } : TRUE

\* a - b, exact, for a >= b; bit j lends to the nearest lower bit where a
\* has 0 and b has 1, through bits where a and b are equal
DifferenceBits(a, b) ==
    BitsOf([j \in 1..BitsLen |->
        (a[j] - b[j] + 2
         - (IF \E i \in (j + 1)..BitsLen :
                   /\ a[i] < b[i]
                   /\ \A m \in (j + 1)..(i - 1) : a[m] = b[m]
            THEN 1 ELSE 0)) % 2])

\* the same, each operand computed once
SubBits(x, y) == CHOOSE r \in { DifferenceBits(a, b) : a \in {x}, b \in {y} } : TRUE

RECURSIVE TimesBits(_, _)
\* k * a for a small integer k, exact
TimesBits(k, a) ==
    IF k = 0 THEN ZeroBits ELSE AddBits(a, TimesBits(k - 1, a))

\* a / 2, exact when the last bit of a is 0
HalfBits(x) ==
    CHOOSE r \in { BitsOf([j \in 1..BitsLen |-> IF j = 1 THEN 0 ELSE a[j - 1]]) :
                   a \in {x} } : TRUE

\* a <= b
LeqBits(x, y) ==
    \E a \in {x}, b \in {y} :
        \/ a = b
        \/ \E j \in 1..BitsLen :
             /\ a[j] < b[j]
             /\ \A i \in 1..(j - 1) : a[i] = b[i]

\* the double nearest to a, ties to even; inexact says that a stands for a
\* value a little above a
RoundBits(a, inexact) ==
    IF a = ZeroBits THEN a
    ELSE LET msb == CHOOSE j \in 1..BitsLen :
                        a[j] = 1 /\ \A i \in 1..(j - 1) : a[i] = 0
             last == msb + SignificandBits - 1
         IN  IF last >= BitsLen THEN a
             ELSE LET kept == [j \in 1..BitsLen |-> IF j <= last THEN a[j] ELSE 0]
                      half == a[last + 1] = 1
                      more == inexact \/ \E j \in (last + 2)..BitsLen : a[j] = 1
                      ulp == [j \in 1..BitsLen |-> IF j = last THEN 1 ELSE 0]
                  IN  IF half /\ (more \/ a[last] = 1)
                      THEN AddBits(BitsOf(kept), BitsOf(ulp))
                      ELSE BitsOf(kept)

\* the result of an operation whose exact value is exact: it is rounded once
RoundToDouble(exact, inexact) ==
    CHOOSE r \in { RoundBits(a, inexact) : a \in {exact} } : TRUE

RECURSIVE RemainderAt(_, _)
\* (k * 2^j) % NormDen
RemainderAt(k, j) ==
    IF j <= 8 THEN (k * 2^j) % NormDen
    ELSE (2^8 * RemainderAt(k, j - 8)) % NormDen

\* the double that a decimal literal of k hundredths is read as: the bits of
\* k / NormDen by long division, rounded
DecimalToDouble(k) ==
    RoundToDouble(
        BitsOf([j \in 1..BitsLen |->
            IF j = 1 THEN k \div NormDen
            ELSE (2 * RemainderAt(k, j - 2)) \div NormDen]),
        RemainderAt(k, FracBits) # 0)

\* var padding = 0.07; var zoneWidth = 0.1; var zoneHeight = 0.5;
\* var vOffset = 0.25
paddingD == DecimalToDouble(padding)
zoneWidthD == DecimalToDouble(zoneWidth)
zoneHeightD == DecimalToDouble(zoneHeight)
vOffsetD == DecimalToDouble(vOffset)

\* n * zoneWidth + (n - 1) * padding
rowWidthD ==
    RoundToDouble(AddBits(RoundToDouble(TimesBits(n, zoneWidthD), FALSE),
                          RoundToDouble(TimesBits(n - 1, paddingD), FALSE)),
                  FALSE)

\* variant: the free width is not halved
hOffsetDNotHalved == RoundToDouble(SubBits(OneBits, rowWidthD), FALSE)

\* var hOffset = (1.0 - (n * zoneWidth + (n - 1) * padding)) / 2.0
hOffsetD == HalfBits(RoundToDouble(SubBits(OneBits, rowWidthD), FALSE))

\* zoneWidth + padding
pitchD == RoundToDouble(AddBits(zoneWidthD, paddingD), FALSE)

\* the rectangle passed to addActiveZone(i, hOffset + i * (zoneWidth +
\* padding), vOffset, zoneWidth, zoneHeight)
SetupRectD(i) ==
    [ x |-> RoundToDouble(
                AddBits(hOffsetD, RoundToDouble(TimesBits(i, pitchD), FALSE)),
                FALSE),
      y |-> vOffsetD,
      w |-> zoneWidthD,
      h |-> zoneHeightD ]

SetupRectsD == SubSeq([k \in 1..n |-> SetupRectD(k - 1)], 1, n)

----------------------------------------------------------------------------
(* The detector, as the sketches' comments document it *)

\* update() on the zones: the movement flag is recomputed, the changed flag
\* is true iff the movement flag changed in this frame; a disabled zone is
\* not tested.
VidaUpdateZone(z, motion) ==
    IF z.isEnabledFlag
    THEN [z EXCEPT !.isChangedFlag = (motion # z.isMovementDetectedFlag),
                   !.isMovementDetectedFlag = motion]
    ELSE [z EXCEPT !.isChangedFlag = FALSE, !.isMovementDetectedFlag = FALSE]

VidaUpdateZones(zones, motion) ==
    [k \in 1..Len(zones) |-> VidaUpdateZone(zones[k], motion[k])]

\* the approximated polygon of a blob with bounding box r: as many points as
\* configured when polygons are approximated, none otherwise
VidaPolygon(r) ==
    IF approximateBlobPolygonsFlag
    THEN [j \in 1..pointsPerApproximatedBlobPolygon |->
            [ normX |-> IF j % 2 = 1 THEN r[1] ELSE r[1] + r[3],
              normY |-> IF 2 * j <= pointsPerApproximatedBlobPolygon
                        THEN r[2] ELSE r[2] + r[4] ]]
    ELSE << >>

VidaBlob(i, r) ==
    [ id |-> i,
      normRectX |-> r[1], normRectY |-> r[2],
      normRectW |-> r[3], normRectH |-> r[4],
      normMassCenterX |-> r[1] + (r[3] \div 2),
      normMassCenterY |-> r[2] + (r[4] \div 2),
      approximatedPolygon |-> VidaPolygon(r) ]

\* bounding boxes the detector may report, in hundredths
BlobRects == { <<0, 0, 100, 100>>, <<10, 20, 30, 40>>, <<99, 99, 1, 1>> }

\* update() on the blobs: any list of at most MaxBlobs blobs
VidaBlobLists ==
    UNION { [1..len -> BlobRects] : len \in 0..MaxBlobs }

VidaUpdateBlobs(rects) == [k \in 1..Len(rects) |-> VidaBlob(k - 1, rects[k])]

----------------------------------------------------------------------------
(* The zones sketch: draw *)

\* variant: the amplitude follows the changed flag, 0.1 * isChangedFlag
ZoneAmpOfChanged(z) == AmpOn * BoolToNumber(z.isChangedFlag)

\* the amplitude passed to amp(): 0.1 * isMovementDetectedFlag
ZoneAmp(z) == AmpOn * BoolToNumber(z.isMovementDetectedFlag)

\* variant: the zone is scaled to the whole canvas, not to width / 2 by
\* height / 2
ZoneRectFullCanvas(z) ==
    << FloorScaled(z.normX, width), FloorScaled(z.normY, height),
       FloorScaled(z.normW, width), FloorScaled(z.normH, height) >>

\* the rectangle passed to rect()
ZoneRect(z) ==
    << FloorScaled(z.normX, width \div 2), FloorScaled(z.normY, height \div 2),
       FloorScaled(z.normW, width \div 2), FloorScaled(z.normH, height \div 2) >>

\* variant: amp() is called for every zone in every frame
ZoneCallsAmpEveryFrame(z, k) ==
    << Call("activeZones.read", "", <<k - 1>>),
       Call("rect", "", ZoneRect(z)),
       Call("text", "id", <<z.id, ZoneRect(z)[1], ZoneRect(z)[2] - 1>>),
       Call("amp", "", <<z.id, ZoneAmp(z)>>) >>

\* the calls of one iteration of the loop over the active zones
ZoneCalls(z, k) ==
    << Call("activeZones.read", "", <<k - 1>>),
       Call("rect", "", ZoneRect(z)),
       Call("text", "id", <<z.id, ZoneRect(z)[1], ZoneRect(z)[2] - 1>>) >>
    \o (IF z.isChangedFlag
        THEN << Call("console.log", "zone",
                     <<z.id, BoolToNumber(z.isMovementDetectedFlag)>>),
                Call("amp", "", <<z.id, ZoneAmp(z)>>) >>
        ELSE << >>)

\* the oscillators after one iteration
ZoneSynth(z, syn) ==
    IF z.isChangedFlag THEN [syn EXCEPT ![z.id + 1] = ZoneAmp(z)] ELSE syn

\* variant: the loop acknowledges a change by clearing the changed flag
ZoneAcknowledged(z) == [z EXCEPT !.isChangedFlag = FALSE]

\* the zone objects after one iteration (the loop only reads them)
ZoneAfterIteration(z) == z

RECURSIVE ZoneLoop(_, _)
\* for(var i = 0; i < myVida.activeZones.length; i++) { ... }; after is the
\* state at the end of iteration k, bound once
ZoneLoop(k, acc) ==
    IF k > Len(acc.zones)
    THEN acc
    ELSE CHOOSE r \in
            { ZoneLoop(k + 1, after) : after \in
                { [acc EXCEPT !.zones[k] = ZoneAfterIteration(acc.zones[k]),
                              !.synth = ZoneSynth(acc.zones[k], acc.synth),
                              !.calls = acc.calls \o ZoneCalls(acc.zones[k], k)] } } :
            TRUE

\* the calls of draw before the gate opened
PromptCalls ==
    << Call("background", "", <<0>>),
       Call("text", Prompt, <<width \div 2, height \div 2>>) >>

\* the calls of draw when there is no video object
AlarmCalls == << Call("background", "", <<255, 0, 0>>) >>

\* the calls of draw between the gate and the loop
FrameCalls(rawImage) ==
    << Call("background", "", <<0, 0, 255>>),
       Call("vida.update", "", << >>),
       Call("image", rawImage, <<0, 0>>),
       Call("image", "backgroundImage", <<320, 0>>),
       Call("image", "differenceImage", <<0, 240>>),
       Call("image", "thresholdImage", <<320, 240>>),
       Call("text", "raw video", <<20, 20>>),
       Call("text", "vida: progressive background image", <<340, 20>>),
       Call("text", "vida: difference image", <<20, 260>>),
       Call("text", "vida: threshold image", <<340, 260>>) >>

\* draw() past the gate: update, the four images, then the loop; updated is
\* what myVida.update made of the zones
ZonesFrame(updated, syn) ==
    ZoneLoop(1, [ zones |-> updated, synth |-> syn, detected |-> updated,
                  calls |-> FrameCalls("currentImage")
                            \o << Call("translate", "", <<offset_x, offset_y>>) >> ])

\* variant: the gate is not tested, every frame is processed
DrawZonesUngated(video, flag, zones, syn, det, motion) ==
    IF ~IsMissing(video)
    THEN ZonesFrame(VidaUpdateZones(zones, motion), syn)
    ELSE [ zones |-> zones, synth |-> syn, detected |-> det,
           calls |-> AlarmCalls ]

\* draw() of the zones sketch; motion is what the detector sees in this
\* frame, det is what the detector last made of the zones
DrawZones(video, flag, zones, syn, det, motion) ==
    IF ~IsMissing(video)
    THEN IF ~flag
         THEN [ zones |-> zones, synth |-> syn, detected |-> det,
                calls |-> PromptCalls ]
         ELSE ZonesFrame(VidaUpdateZones(zones, motion), syn)
    ELSE [ zones |-> zones, synth |-> syn, detected |-> det,
           calls |-> AlarmCalls ]

----------------------------------------------------------------------------
(* The blobs sketch: draw *)

\* the bounding box passed to rect()
BlobRect(b) ==
    << FloorScaled(b.normRectX, width \div 2), FloorScaled(b.normRectY, height \div 2),
       FloorScaled(b.normRectW, width \div 2), FloorScaled(b.normRectH, height \div 2) >>

\* variant: the polygon is closed by drawing its first point once more
VertexCallsClosed(poly) ==
    [j \in 1..(IF Len(poly) = 0 THEN 0 ELSE Len(poly) + 1) |->
        Call("vertex", "", << poly[((j - 1) % Len(poly)) + 1].normX * (width \div 2),
                              poly[((j - 1) % Len(poly)) + 1].normY * (height \div 2) >>)]

\* for(var j = 0; j < approximatedPolygon.length; j++) vertex(...); the
\* coordinates are not floored: they are recorded in 1/NormDen pixels
VertexCalls(poly) ==
    [j \in 1..Len(poly) |->
        Call("vertex", "", << poly[j].normX * (width \div 2),
                              poly[j].normY * (height \div 2) >>)]

\* variant: the blobs are queried again in every iteration
BlobCallsRequery(b, k) ==
    << Call("vida.getBlobs", "", << >>),
       Call("blobs.read", "", <<k - 1>>),
       Call("rect", "", << >>),
       Call("beginShape", "", <<k - 1>>),
       Call("endShape", "CLOSE", <<k - 1>>) >>

\* the calls of one iteration of the loop over the blobs
BlobCalls(b, k) ==
    << Call("blobs.read", "", <<k - 1>>),
       Call("rect", "", BlobRect(b)),
       Call("ellipse", "",
            << FloorScaled(b.normMassCenterX, width \div 2),
               FloorScaled(b.normMassCenterY, height \div 2), 3, 3 >>),
       Call("text", "id", <<b.id, BlobRect(b)[1], BlobRect(b)[2] - 1>>),
       Call("beginShape", "", <<k - 1>>) >>
    \o VertexCalls(b.approximatedPolygon)
    \o << Call("endShape", "CLOSE", <<k - 1>>) >>

RECURSIVE BlobLoop(_, _, _)
\* for(var i = 0; i < temp_blobs.length; i++) { ... }
BlobLoop(temp_blobs, k, acc) ==
    IF k > Len(temp_blobs)
    THEN acc
    ELSE CHOOSE r \in
            { BlobLoop(temp_blobs, k + 1, after) : after \in
                { acc \o BlobCalls(temp_blobs[k], k) } } :
            TRUE

\* draw() of the blobs sketch; rects is what the detector sees in this frame
DrawBlobs(video, flag, oldBlobs, rects) ==
    IF ~IsMissing(video)
    THEN IF ~flag
         THEN [ blobs |-> oldBlobs, calls |-> PromptCalls ]
         ELSE LET updated == VidaUpdateBlobs(rects)
              IN  [ blobs |-> updated,
                    calls |-> BlobLoop(updated, 1,
                                FrameCalls("myVideo")
                                \o << Call("vida.getBlobs", "", << >>),
                                      Call("translate", "",
                                           <<offset_x, offset_y>>) >>) ]
    ELSE [ blobs |-> oldBlobs, calls |-> AlarmCalls ]

----------------------------------------------------------------------------
(* Both sketches: safeStartVideo and touchEnded *)

\* variant: the flag is set before the playback is started
safeStartVideoFlagFirst(video, time, playing, flag, loopThrows, hideThrows) ==
    IF IsMissing(video)
    THEN [ flag |-> flag, playing |-> playing, propagated |-> FALSE,
           calls |-> << >> ]
    ELSE IF loopThrows \/ hideThrows
    THEN [ flag |-> TRUE, playing |-> (playing \/ ~loopThrows),
           propagated |-> FALSE,
           calls |-> << Call("video.loop", IF loopThrows THEN "throws" ELSE "", << >>),
                        Call("video.hide", "throws", << >>),
                        Call("console.log", "[safeStartVideo]", << >>) >> ]
    ELSE [ flag |-> TRUE, playing |-> TRUE, propagated |-> FALSE,
           calls |-> << Call("video.loop", "", << >>),
                        Call("video.hide", "", << >>) >> ]

\* variant: the flag is not set after the playback was started in the try
\* block
safeStartVideoTryKeepsFlag(video, time, playing, flag, loopThrows, hideThrows) ==
    IF IsMissing(video)
    THEN [ flag |-> flag, playing |-> playing, propagated |-> FALSE,
           calls |-> << >> ]
    ELSE IF ~IsNaN(time) /\ time < PlayingTimeLimit
    THEN [ flag |-> TRUE, playing |-> playing, propagated |-> FALSE,
           calls |-> << Call("video.time", "", <<time>>),
                        Call("video.time", "", <<time>>) >> ]
    ELSE [ flag |-> flag, playing |-> (playing \/ ~loopThrows),
           propagated |-> FALSE,
           calls |-> << Call("video.time", "", <<time>>),
                        Call("video.loop", IF loopThrows THEN "throws" ELSE "", << >>) >> ]

\* safeStartVideo(); loopThrows and hideThrows say whether myVideo.loop() and
\* myVideo.hide() throw in this call
safeStartVideo(video, time, playing, flag, loopThrows, hideThrows) ==
    IF IsMissing(video)
    THEN [ flag |-> flag, playing |-> playing, propagated |-> FALSE,
           calls |-> << >> ]
    ELSE IF ~IsNaN(time) /\ time < PlayingTimeLimit
    THEN [ flag |-> TRUE, playing |-> playing, propagated |-> FALSE,
           calls |-> << Call("video.time", "", <<time>>),
                        Call("video.time", "", <<time>>) >> ]
    ELSE IF loopThrows
    THEN [ flag |-> flag, playing |-> playing, propagated |-> FALSE,
           calls |-> << Call("video.time", "", <<time>>),
                        Call("video.loop", "throws", << >>),
                        Call("console.log", "[safeStartVideo]", << >>) >> ]
    ELSE IF hideThrows
    THEN [ flag |-> flag, playing |-> TRUE, propagated |-> FALSE,
           calls |-> << Call("video.time", "", <<time>>),
                        Call("video.loop", "", << >>),
                        Call("video.hide", "throws", << >>),
                        Call("console.log", "[safeStartVideo]", << >>) >> ]
    ELSE [ flag |-> TRUE, playing |-> TRUE, propagated |-> FALSE,
           calls |-> << Call("video.time", "", <<time>>),
                        Call("video.loop", "", << >>),
                        Call("video.hide", "", << >>) >> ]

\* variant: a tap after the start pauses the interaction again
touchEndedZonesToggles(video, time, playing, flag, loopThrows, hideThrows) ==
    LET s == IF ~flag
             THEN safeStartVideo(video, time, playing, flag, loopThrows, hideThrows)
             ELSE [ flag |-> FALSE, playing |-> playing, propagated |-> FALSE,
                    calls |-> << >> ]
    IN  [ flag |-> s.flag, playing |-> s.playing, propagated |-> s.propagated,
          started |-> ~flag, calls |-> s.calls ]

\* touchEnded() of the zones sketch
touchEndedZones(video, time, playing, flag, loopThrows, hideThrows) ==
    LET s == IF ~flag
             THEN safeStartVideo(video, time, playing, flag, loopThrows, hideThrows)
             ELSE [ flag |-> flag, playing |-> playing, propagated |-> FALSE,
                    calls |-> << >> ]
    IN  [ flag |-> s.flag, playing |-> s.playing, propagated |-> s.propagated,
          started |-> ~flag, calls |-> s.calls ]

\* variant: the playback is started first, the background is set after it
touchEndedBlobsStartFirst(video, time, playing, flag, frame, loopThrows, hideThrows) ==
    LET s == IF ~flag
             THEN safeStartVideo(video, time, playing, flag, loopThrows, hideThrows)
             ELSE [ flag |-> flag, playing |-> playing, propagated |-> FALSE,
                    calls |-> << >> ]
        setBg == ~IsMissing(video) /\ s.flag
        bgCalls == IF setBg
                   THEN << Call("vida.setBackgroundImage", "", <<time>>),
                           Call("console.log", "background set", << >>) >>
                   ELSE << >>
    IN  [ flag |-> s.flag, playing |-> s.playing, propagated |-> s.propagated,
          started |-> ~flag,
          frame |-> IF setBg THEN time ELSE frame,
          calls |-> s.calls \o bgCalls ]

\* touchEnded() of the blobs sketch; frame is the frame in the background
\* buffer
touchEndedBlobs(video, time, playing, flag, frame, loopThrows, hideThrows) ==
    LET setBg == ~IsMissing(video) /\ flag
        bgCalls == IF setBg
                   THEN << Call("vida.setBackgroundImage", "", <<time>>),
                           Call("console.log", "background set", << >>) >>
                   ELSE << >>
        s == IF ~flag
             THEN safeStartVideo(video, time, playing, flag, loopThrows, hideThrows)
             ELSE [ flag |-> flag, playing |-> playing, propagated |-> FALSE,
                    calls |-> << >> ]
    IN  [ flag |-> s.flag, playing |-> s.playing, propagated |-> s.propagated,
          started |-> ~flag,
          frame |-> IF setBg THEN time ELSE frame,
          calls |-> bgCalls \o s.calls ]

----------------------------------------------------------------------------
(* State after setup() *)

Init ==
    /\ sketch \in {"zones", "blobs"}
    /\ myVideo = "video"
    \* myVideo.loop() in setup: the browser may refuse to start the playback
    /\ videoPlaying \in BOOLEAN
    /\ videoTime = 0
    /\ videoFrame = IF sketch = "zones" THEN [k \in 1..n |-> FALSE] ELSE << >>
    /\ interactionStartedFlag = FALSE
    /\ activeZones = IF sketch = "zones" THEN SetupZones ELSE << >>
    /\ synth = IF sketch = "zones" THEN SetupSynth ELSE << >>
    /\ blobs = << >>
    /\ backgroundFrame = NoFrame
    /\ detected = activeZones
    /\ synthBefore = synth
    /\ flagBefore = FALSE
    /\ started = FALSE
    /\ calls = << >>
    /\ handler = "setup"
    /\ propagated = FALSE

\* The globals when createVideo gave no object: setup stopped at its first
\* use of myVideo, before any zone or oscillator was created.
InitNoVideo ==
    /\ sketch \in {"zones", "blobs"}
    /\ myVideo \in {"null", "undefined"}
    /\ videoPlaying = FALSE
    /\ videoTime = 0
    /\ videoFrame = << >>
    /\ interactionStartedFlag = FALSE
    /\ activeZones = << >>
    /\ synth = << >>
    /\ blobs = << >>
    /\ backgroundFrame = NoFrame
    /\ detected = << >>
    /\ synthBefore = << >>
    /\ flagBefore = FALSE
    /\ started = FALSE
    /\ calls = << >>
    /\ handler = "setup"
    /\ propagated = FALSE

InitEnv == Init \/ InitNoVideo

\* rectangles a zone may have been moved to, in hundredths
NormRects ==
    { <<0, 0, 100, 100>>, <<1, 99, 99, 1>>, <<33, 67, 100, 50>> }

\* the zones of setup, moved and resized: zone k gets g turned by k places
MovedZones(g) ==
    [k \in 1..n |->
        [SetupZone(k - 1) EXCEPT !.normX = g[((k + 0) % 4) + 1],
                                 !.normY = g[((k + 1) % 4) + 1],
                                 !.normW = g[((k + 2) % 4) + 1],
                                 !.normH = g[((k + 3) % 4) + 1]]]

\* The state after setup when the zones' rectangles hold any normalized
\* values: the inputs of the conversion to pixels.
InitGeometry ==
    /\ sketch \in {"zones", "blobs"}
    /\ myVideo = "video"
    /\ videoPlaying \in BOOLEAN
    /\ videoTime = 0
    /\ videoFrame = IF sketch = "zones" THEN [k \in 1..n |-> FALSE] ELSE << >>
    /\ interactionStartedFlag = FALSE
    /\ \E g \in NormRects :
         activeZones = IF sketch = "zones" THEN MovedZones(g) ELSE << >>
    /\ synth = IF sketch = "zones" THEN SetupSynth ELSE << >>
    /\ blobs = << >>
    /\ backgroundFrame = NoFrame
    /\ detected = activeZones
    /\ synthBefore = synth
    /\ flagBefore = FALSE
    /\ started = FALSE
    /\ calls = << >>
    /\ handler = "setup"
    /\ propagated = FALSE

----------------------------------------------------------------------------
(* Handlers *)

\* the host calls draw() of the zones sketch
ZonesDraw ==
    /\ sketch = "zones"
    /\ handler' = "draw"
    /\ \E motion \in [1..Len(activeZones) -> BOOLEAN] :
         /\ videoFrame' = motion
         /\ \E r \in {DrawZones(myVideo, interactionStartedFlag, activeZones,
                               synth, detected, motion)} :
             /\ activeZones' = r.zones
             /\ synth' = r.synth
             /\ detected' = r.detected
             /\ calls' = r.calls
    /\ synthBefore' = synth
    /\ flagBefore' = interactionStartedFlag
    /\ started' = FALSE
    /\ propagated' = FALSE
    /\ UNCHANGED <<sketch, myVideo, videoPlaying, videoTime,
                   interactionStartedFlag, blobs, backgroundFrame>>

\* the host calls draw() of the blobs sketch
BlobsDraw ==
    /\ sketch = "blobs"
    /\ handler' = "draw"
    /\ \E rects \in VidaBlobLists :
         /\ videoFrame' = rects
         /\ \E r \in {DrawBlobs(myVideo, interactionStartedFlag, blobs, rects)} :
             /\ blobs' = r.blobs
             /\ calls' = r.calls
    /\ synthBefore' = synth
    /\ flagBefore' = interactionStartedFlag
    /\ started' = FALSE
    /\ propagated' = FALSE
    /\ UNCHANGED <<sketch, myVideo, videoPlaying, videoTime,
                   interactionStartedFlag, activeZones, synth, backgroundFrame,
                   detected>>

\* the host calls touchEnded() of the zones sketch (click or tap)
ZonesTouchEnded ==
    /\ sketch = "zones"
    /\ \E loopThrows \in BOOLEAN, hideThrows \in BOOLEAN :
         LET r == touchEndedZones(myVideo, videoTime, videoPlaying,
                                  interactionStartedFlag, loopThrows, hideThrows)
         IN  /\ interactionStartedFlag' = r.flag
             /\ videoPlaying' = r.playing
             /\ propagated' = r.propagated
             /\ started' = r.started
             /\ calls' = r.calls
    /\ synthBefore' = synth
    /\ flagBefore' = interactionStartedFlag
    /\ handler' = "touchEnded"
    /\ UNCHANGED <<sketch, myVideo, videoTime, videoFrame, activeZones, synth,
                   blobs, backgroundFrame, detected>>

\* the host calls touchEnded() of the blobs sketch (click or tap)
BlobsTouchEnded ==
    /\ sketch = "blobs"
    /\ \E loopThrows \in BOOLEAN, hideThrows \in BOOLEAN :
         LET r == touchEndedBlobs(myVideo, videoTime, videoPlaying,
                                  interactionStartedFlag, backgroundFrame,
                                  loopThrows, hideThrows)
         IN  /\ interactionStartedFlag' = r.flag
             /\ videoPlaying' = r.playing
             /\ propagated' = r.propagated
             /\ backgroundFrame' = r.frame
             /\ started' = r.started
             /\ calls' = r.calls
    /\ synthBefore' = synth
    /\ flagBefore' = interactionStartedFlag
    /\ handler' = "touchEnded"
    /\ UNCHANGED <<sketch, myVideo, videoTime, videoFrame, activeZones, synth,
                   blobs, detected>>

\* the playback time after one more step of a playing, looping video
NextTime(time) ==
    IF time + TimeStep > VideoDuration THEN 0 ELSE time + TimeStep

\* the cue registered by myVideo.addCue(0.1, touchEnded) is passed between
\* the previous playback time and the new one
CuePassed(sk, prevTime, time) ==
    sk = "blobs" /\ prevTime < CueTime /\ CueTime <= time

\* the video plays on, no cue is passed: no code of the sketch runs
VideoTimeUpdate ==
    /\ myVideo = "video"
    /\ videoPlaying
    /\ ~CuePassed(sketch, videoTime, NextTime(videoTime))
    /\ videoTime' = NextTime(videoTime)
    /\ UNCHANGED <<sketch, myVideo, videoPlaying, videoFrame,
                   interactionStartedFlag, activeZones, synth, blobs,
                   backgroundFrame, detected, synthBefore, flagBefore,
                   started, calls, handler, propagated>>

\* the video plays on and passes the cue: the video calls touchEnded()
VideoCue ==
    /\ myVideo = "video"
    /\ videoPlaying
    /\ CuePassed(sketch, videoTime, NextTime(videoTime))
    /\ videoTime' = NextTime(videoTime)
    /\ \E loopThrows \in BOOLEAN, hideThrows \in BOOLEAN :
         LET r == touchEndedBlobs(myVideo, NextTime(videoTime), videoPlaying,
                                  interactionStartedFlag, backgroundFrame,
                                  loopThrows, hideThrows)
         IN  /\ interactionStartedFlag' = r.flag
             /\ videoPlaying' = r.playing
             /\ propagated' = r.propagated
             /\ backgroundFrame' = r.frame
             /\ started' = r.started
             /\ calls' = r.calls
    /\ synthBefore' = synth
    /\ flagBefore' = interactionStartedFlag
    /\ handler' = "cue"
    /\ UNCHANGED <<sketch, myVideo, videoFrame, activeZones, synth, blobs,
                   detected>>

Next ==
    \/ ZonesDraw
    \/ BlobsDraw
    \/ ZonesTouchEnded
    \/ BlobsTouchEnded
    \/ VideoTimeUpdate
    \/ VideoCue

Spec == Init /\ [][Next]_vars

\* the same handlers, from the states setup can leave without a video object
SpecEnv == InitEnv /\ [][Next]_vars

\* the same handlers, over zones of any geometry
SpecGeometry == InitGeometry /\ [][Next]_vars

\* a click or tap in which neither myVideo.loop() nor myVideo.hide() throws
TouchEndedNoThrow ==
    /\ ZonesTouchEnded \/ BlobsTouchEnded
    /\ \A k \in 1..Len(calls') : calls'[k].s # "throws"

\* the host calls draw()
AnyDraw == ZonesDraw \/ BlobsDraw

\* The host calls draw at every display refresh (frameRate(30)); the user
\* keeps clicking or tapping and the start of the playback does not throw
\* for ever.
SpecLive ==
    /\ Init
    /\ [][Next]_vars
    /\ WF_vars(AnyDraw)
    /\ WF_vars(TouchEndedNoThrow)

----------------------------------------------------------------------------
(* Reading the record of calls *)

\* the places of the calls of function f among the calls of the last handler
CallsOf(f) == { k \in 1..Len(calls) : calls[k].f = f }

Called(f) == CallsOf(f) # {}

\* p is Math.floor(k / NormDen * size): the integer with p <= k/NormDen*size < p + 1
IsFloorOf(p, k, size) ==
    /\ p \in Int
    /\ p * NormDen <= k * size
    /\ k * size < (p + 1) * NormDen

\* the last handler was a draw that passed the gate
DrewFrame == handler = "draw" /\ interactionStartedFlag /\ myVideo = "video"

\* there is no video object
NoVideo == myVideo \in {"null", "undefined"}

----------------------------------------------------------------------------
(* Claims *)

\* C1: in both sketches a draw call that runs while interactionStartedFlag is
\* false renders only the "click or tap to start video playback" prompt and
\* returns: it does not call myVida.update, reads no zone and no blob, and
\* touches no oscillator (they are all still silent).
C1_GateShowsOnlyPrompt ==
    (handler = "draw" /\ ~interactionStartedFlag) =>
        /\ Len(calls) = 2
        /\ calls[1].f = "background" /\ calls[1].a = <<0>>
        /\ calls[2].f = "text"
        /\ calls[2].s = "click or tap to start video playback"
        /\ \A k \in 1..Len(calls) :
             calls[k].f \notin { "vida.update", "vida.getBlobs",
                                 "activeZones.read", "blobs.read", "amp" }
        /\ \A k \in 1..Len(synth) : synth[k] = 0
        /\ \A k \in 1..Len(activeZones) :
             ~activeZones[k].isMovementDetectedFlag /\ ~activeZones[k].isChangedFlag
        /\ blobs = << >>

\* a draw call ran while the gate was closed
C1_Witness ==
    handler = "draw" /\ ~interactionStartedFlag /\ Len(calls) > 0

\* C2 as stated: after every frame drawn past the gate, each zone's
\* oscillator has amplitude 0.1 exactly when the zone's movement flag and
\* changed flag are both true, and amplitude zero otherwise.
C2_AmplitudeIsMovedAndChanged ==
    (sketch = "zones" /\ DrewFrame) =>
        \A k \in 1..Len(activeZones) :
            synth[activeZones[k].id + 1] =
                IF activeZones[k].isMovementDetectedFlag /\ activeZones[k].isChangedFlag
                THEN 1 ELSE 0

\* C2 amended: on a frame drawn past the gate, a zone whose changed flag is
\* true gets its oscillator set to 0.1 if its movement flag is true and to 0
\* if it is false; a zone whose changed flag is false keeps the amplitude it
\* had before the frame.
C2_AmplitudeSetOnChange ==
    (sketch = "zones" /\ DrewFrame) =>
        \A k \in 1..Len(activeZones) :
            IF activeZones[k].isChangedFlag
            THEN synth[activeZones[k].id + 1] =
                   (IF activeZones[k].isMovementDetectedFlag THEN 1 ELSE 0)
            ELSE synth[activeZones[k].id + 1] = synthBefore[activeZones[k].id + 1]

\* a frame in which movement goes on in a zone: its changed flag is false and
\* its oscillator still sounds
C2_Witness ==
    /\ sketch = "zones" /\ DrewFrame
    /\ \E k \in 1..Len(activeZones) :
         /\ activeZones[k].isMovementDetectedFlag
         /\ ~activeZones[k].isChangedFlag
         /\ synth[activeZones[k].id + 1] = 1

\* C3: in a frame of the zones sketch every active zone is drawn by one
\* rect() call whose four arguments are the integers floor(normX * drawWidth),
\* floor(normY * drawHeight), floor(normW * drawWidth), floor(normH *
\* drawHeight), with drawWidth = width / 2 and drawHeight = height / 2, for
\* any normalized values in [0, 1].
C3_RectIsFlooredScaledZone ==
    (sketch = "zones" /\ DrewFrame) =>
        /\ Cardinality(CallsOf("rect")) = Len(activeZones)
        /\ \A k \in 1..Len(activeZones) :
             \E j \in CallsOf("activeZones.read") :
                 /\ calls[j].a = <<k - 1>>
                 /\ calls[j + 1].f = "rect"
                 /\ Len(calls[j + 1].a) = 4
                 /\ IsFloorOf(calls[j + 1].a[1], activeZones[k].normX, width \div 2)
                 /\ IsFloorOf(calls[j + 1].a[2], activeZones[k].normY, height \div 2)
                 /\ IsFloorOf(calls[j + 1].a[3], activeZones[k].normW, width \div 2)
                 /\ IsFloorOf(calls[j + 1].a[4], activeZones[k].normH, height \div 2)

\* a frame was drawn with a zone whose scaled coordinate is no integer
\* (0.33 * 320 = 105.6) and a zone at the far edge (1.0)
C3_Witness ==
    /\ sketch = "zones" /\ DrewFrame
    /\ \E k \in 1..Len(activeZones) : activeZones[k].normX = 33
    /\ \E k \in 1..Len(activeZones) : activeZones[k].normX = 100
    /\ Called("rect")

\* C4: in the blobs sketch, for every blob drawn in a frame, the vertex()
\* calls are made between the blob's beginShape and endShape and there are
\* no more of them than myVida.pointsPerApproximatedBlobPolygon (8).
C4_VertexCountBounded ==
    (sketch = "blobs" /\ handler = "draw") =>
        /\ Cardinality(CallsOf("beginShape")) = Len(blobs) * BoolToNumber(DrewFrame)
        /\ \A i \in CallsOf("beginShape") :
             \E e \in CallsOf("endShape") :
                 /\ i < e
                 /\ \A j \in (i + 1)..(e - 1) : calls[j].f = "vertex"
                 /\ e - i - 1 <= 8
                 /\ e - i - 1 <= pointsPerApproximatedBlobPolygon
        /\ \A j \in CallsOf("vertex") :
             \E i \in CallsOf("beginShape") :
                 i < j /\ \A m \in i..j : calls[m].f # "endShape"

\* a frame with two blobs was drawn, with their polygons
C4_Witness ==
    /\ sketch = "blobs" /\ DrewFrame
    /\ Len(blobs) = 2
    /\ Cardinality(CallsOf("vertex")) = 16

\* C5: when safeStartVideo tries to start the playback and myVideo.loop() or
\* myVideo.hide() throws, the exception is caught and logged, it does not
\* leave the handler, and interactionStartedFlag stays false (so the next
\* touchEnded calls safeStartVideo again).
C5_FailedStartIsCaught ==
    (\E k \in 1..Len(calls) : calls[k].s = "throws") =>
        /\ ~propagated
        /\ ~interactionStartedFlag
        /\ calls[Len(calls)].f = "console.log"
        /\ calls[Len(calls)].s = "[safeStartVideo]"
        /\ \A k \in 1..Len(calls) :
             calls[k].s = "throws" => k = Len(calls) - 1

\* touchEnded tried to start the playback and hide() threw after loop() had
\* started it
C5_Witness ==
    /\ handler = "touchEnded"
    /\ \E k \in CallsOf("video.hide") : calls[k].s = "throws"
    /\ \E k \in CallsOf("video.loop") : calls[k].s = ""
    /\ videoPlaying

\* C6: while myVideo is null or undefined no handler uses the video: draw
\* only paints the red background (no prompt, no update, no zone, blob or
\* oscillator), safeStartVideo returns and leaves interactionStartedFlag as
\* it is (false), and touchEnded of the blobs sketch sets no background image.
C6_NoVideoNoUse ==
    NoVideo =>
        /\ handler = "draw" =>
             /\ Len(calls) = 1
             /\ calls[1].f = "background" /\ calls[1].a = <<255, 0, 0>>
        /\ handler \in {"touchEnded", "cue"} => calls = << >>
        /\ \A k \in 1..Len(calls) :
             calls[k].f \notin { "text", "vida.update", "vida.getBlobs",
                                 "vida.setBackgroundImage", "video.time",
                                 "video.loop", "video.hide", "amp",
                                 "activeZones.read", "blobs.read" }
        /\ ~interactionStartedFlag
        /\ backgroundFrame = NoFrame
        /\ ~propagated

\* draw ran without a video object
C6_Witness ==
    myVideo = "undefined" /\ handler = "draw" /\ Len(calls) = 1

\* C7: in the blobs sketch, when the cue registered at 0.1 s fires and calls
\* touchEnded, the current frame is loaded into the background buffer with
\* setBackgroundImage, so that a background image is set from then on.
C7_CueSetsBackground ==
    (sketch = "blobs" /\ handler = "cue") =>
        /\ Called("vida.setBackgroundImage")
        /\ backgroundFrame # NoFrame

\* C8: safeStartVideo sets interactionStartedFlag without asking for
\* playback only when the video is already playing; when it is not playing
\* (a video that never started reports time 0) loop() is called before the
\* flag is set.
C8_FlagWithoutLoopOnlyIfPlaying ==
    ( /\ handler \in {"touchEnded", "cue"}
      /\ Called("video.time")
      /\ interactionStartedFlag
      /\ ~Called("video.loop") ) => videoPlaying

\* C9: a draw call that passes the gate calls myVida.update exactly once,
\* before any zone or blob is read; the blobs sketch calls myVida.getBlobs at
\* most once in a draw call, after update.
C9_UpdateOnceBeforeReads ==
    DrewFrame =>
        /\ Cardinality(CallsOf("vida.update")) = 1
        /\ \A k \in CallsOf("activeZones.read") \cup CallsOf("blobs.read")
                    \cup CallsOf("vida.getBlobs") \cup CallsOf("amp")
                    \cup CallsOf("rect") :
             \E u \in CallsOf("vida.update") : u < k
        /\ Cardinality(CallsOf("vida.getBlobs")) <= 1
        /\ sketch = "blobs" =>
             \A k \in CallsOf("blobs.read") :
                 \E q \in CallsOf("vida.getBlobs") : q < k
        /\ sketch = "zones" => ~Called("vida.getBlobs")

\* a frame of the blobs sketch in which two blobs were read
C9_Witness ==
    /\ sketch = "blobs" /\ DrewFrame
    /\ Cardinality(CallsOf("blobs.read")) = 2

\* C10: in the zones sketch the zones are written by the detector only:
\* whatever draw and touchEnded calls were made, the active zones are the 5
\* zones with ids 0..4 that setup created, with the rectangles and the enable
\* flag setup gave them, and their flags are as the last update left them.
C10_ZonesOnlyWrittenByDetector ==
    sketch = "zones" =>
        /\ Len(activeZones) = 5
        /\ activeZones = detected
        /\ \A k \in 1..Len(activeZones) :
             /\ activeZones[k].id = k - 1
             /\ activeZones[k].normX = 11 + 17 * (k - 1)
             /\ activeZones[k].normY = 25
             /\ activeZones[k].normW = 10
             /\ activeZones[k].normH = 50
             /\ activeZones[k].isEnabledFlag

\* a frame was drawn in which the detector had flagged changes in two zones
C10_Witness ==
    /\ sketch = "zones" /\ DrewFrame
    /\ Cardinality({ k \in 1..Len(activeZones) : activeZones[k].isChangedFlag }) >= 2
    /\ Called("amp")

\* C11: when touchEnded keeps being called while interactionStartedFlag is
\* false and the video object is there, and the start of the playback stops
\* throwing at some time, the flag becomes true and a later draw calls
\* myVida.update, also after start attempts that failed.
C11_RetryOpensGate ==
    (myVideo = "video" /\ ~interactionStartedFlag)
        ~> (interactionStartedFlag /\ handler = "draw" /\ Called("vida.update"))

\* a start attempt failed and the gate is still closed
C11_Witness ==
    /\ myVideo = "video" /\ ~interactionStartedFlag
    /\ handler = "touchEnded"
    /\ \E k \in CallsOf("video.loop") : calls[k].s = "throws"

\* the prompt screen was drawn by the last draw
PromptShown ==
    /\ handler = "draw"
    /\ \E k \in CallsOf("text") : calls[k].s = Prompt

\* C12: interactionStartedFlag starts false and no handler sets it back to
\* false once it is true; and once a draw has called myVida.update, no later
\* draw shows the prompt screen (the video object is there throughout).
C12_FlagNeverReset ==
    /\ ~interactionStartedFlag
    /\ [][interactionStartedFlag => interactionStartedFlag']_vars
    /\ []((handler = "draw" /\ Called("vida.update")) => []~PromptShown)

C12_Witness ==
    /\ sketch = "blobs"
    /\ handler = "touchEnded"
    /\ interactionStartedFlag
    /\ Called("vida.setBackgroundImage")
    /\ blobs # << >>

\* C13: a touchEnded call calls safeStartVideo exactly when
\* interactionStartedFlag was false at entry; in the blobs sketch it calls
\* setBackgroundImage exactly when the flag was true at entry and there is a
\* video object; no call both opens the gate and sets the background image;
\* and touchEnded of the zones sketch does nothing once the flag is true.
C13_TouchEndedDispatch ==
    /\ [](handler \in {"touchEnded", "cue"} =>
            /\ started <=> ~flagBefore
            /\ sketch = "blobs" =>
                 (Called("vida.setBackgroundImage")
                     <=> (flagBefore /\ myVideo = "video"))
            /\ sketch = "zones" => ~Called("vida.setBackgroundImage")
            /\ ~( /\ ~flagBefore /\ interactionStartedFlag
                  /\ Called("vida.setBackgroundImage") )
            /\ (sketch = "zones" /\ flagBefore) => calls = << >>)
    /\ [][(ZonesTouchEnded /\ interactionStartedFlag) =>
            UNCHANGED <<myVideo, videoPlaying, videoTime, interactionStartedFlag,
                        activeZones, synth, blobs, backgroundFrame>>]_vars

\* a touchEnded call of the blobs sketch opened the gate, and set no
\* background image
C13_Witness ==
    /\ sketch = "blobs"
    /\ handler = "touchEnded"
    /\ started /\ ~flagBefore /\ interactionStartedFlag
    /\ ~Called("vida.setBackgroundImage")

\* C14: in a draw of the zones sketch there is no amp() call for a zone whose
\* isChangedFlag is false, and its oscillator keeps the amplitude it had
\* before the frame, whether the zone sees movement or not; every amp() call
\* of a draw is made on the oscillator of a zone whose isChangedFlag is true.
C14_AmpOnlyForChangedZones ==
    (sketch = "zones" /\ handler = "draw") =>
        /\ \A k \in 1..Len(activeZones) :
             ~activeZones[k].isChangedFlag =>
                /\ \A c \in CallsOf("amp") : calls[c].a[1] # activeZones[k].id
                /\ synth[activeZones[k].id + 1] = synthBefore[activeZones[k].id + 1]
        /\ \A c \in CallsOf("amp") :
             \E k \in 1..Len(activeZones) :
                /\ activeZones[k].isChangedFlag
                /\ activeZones[k].id = calls[c].a[1]

\* a frame in which one zone changed and got its amp() call while two other
\* zones did not change, one with movement and one without
C14_Witness ==
    /\ sketch = "zones" /\ DrewFrame
    /\ Cardinality(CallsOf("amp")) = 1
    /\ \E k \in 1..Len(activeZones) :
         ~activeZones[k].isChangedFlag /\ activeZones[k].isMovementDetectedFlag
    /\ \E k \in 1..Len(activeZones) :
         ~activeZones[k].isChangedFlag /\ ~activeZones[k].isMovementDetectedFlag

\* every oscillator has amplitude 0
AllSilent == \A i \in 1..Len(synth) : synth[i] = 0

\* some zone has its changed flag set
SomeZoneChanged == \E k \in 1..Len(activeZones) : activeZones[k].isChangedFlag

\* C15: with a detector that sets isChangedFlag exactly in the frames where
\* isMovementDetectedFlag differs from the frame before, every oscillator has
\* amplitude 0 or 0.1 after every handler, synth[i] has 0.1 exactly when zone
\* i sees movement, and all oscillators stay silent from setup until the gate
\* is open and a zone has changed.
C15_AmplitudeFollowsMovement ==
    /\ [](sketch = "zones" =>
            /\ Len(synth) = Len(activeZones)
            /\ \A k \in 1..Len(activeZones) :
                 /\ synth[activeZones[k].id + 1] \in {0, AmpOn}
                 /\ synth[activeZones[k].id + 1] = AmpOn
                      <=> activeZones[k].isMovementDetectedFlag)
    /\ AllSilent
    /\ [][(AllSilent /\ ~(interactionStartedFlag' /\ SomeZoneChanged'))
             => AllSilent']_vars

\* after a frame in which movement had stopped in one zone and gone on in
\* another
C15_Witness ==
    /\ sketch = "zones" /\ DrewFrame
    /\ \E k \in 1..Len(activeZones) :
         /\ activeZones[k].isChangedFlag
         /\ ~activeZones[k].isMovementDetectedFlag
         /\ synth[activeZones[k].id + 1] = 0
    /\ \E k \in 1..Len(activeZones) :
         /\ ~activeZones[k].isChangedFlag
         /\ activeZones[k].isMovementDetectedFlag
         /\ synth[activeZones[k].id + 1] = AmpOn

\* C16: in the zones sketch the ids of the active zones are the indices of
\* the oscillators created in setup, 0 to 4, one oscillator for each zone, so
\* every amp() call of a draw is made on an element of synth that exists.
C16_ZoneIdsAreSynthIndices ==
    sketch = "zones" =>
        /\ { activeZones[k].id : k \in 1..Len(activeZones) } = 0..(n - 1)
        /\ { i - 1 : i \in DOMAIN synth } = 0..(n - 1)
        /\ \A k, l \in 1..Len(activeZones) :
             activeZones[k].id = activeZones[l].id => k = l
        /\ \A c \in CallsOf("amp") : calls[c].a[1] + 1 \in DOMAIN synth

\* a frame with amp() calls on the first and on the last oscillator
C16_Witness ==
    /\ sketch = "zones" /\ DrewFrame
    /\ \E c \in CallsOf("amp") : calls[c].a[1] = 0
    /\ \E c \in CallsOf("amp") : calls[c].a[1] = n - 1

\* 2^-52, the distance from 1 to the next double
Epsilon == BitsOf([j \in 1..BitsLen |-> IF j = SignificandBits THEN 1 ELSE 0])

\* a and b differ by at most Epsilon
NearBits(a, b) ==
    LeqBits(a, AddBits(b, Epsilon)) /\ LeqBits(b, AddBits(a, Epsilon))

\* the right edges of the zones of setup, x + w without rounding
RightEdgesD ==
    SubSeq([k \in 1..n |-> AddBits(SetupRectsD[k].x, SetupRectsD[k].w)], 1, n)

\* where each zone would start if it started the padding after the end of
\* the zone before
AfterPaddingD ==
    SubSeq([k \in 1..(n - 1) |-> AddBits(RightEdgesD[k], paddingD)], 1, n - 1)

\* the left margin of the first zone and the right margin of the last one
MarginsD == << SetupRectsD[1].x, SubBits(OneBits, RightEdgesD[n]) >>

\* the hundredth nearest to the double d
NearestHundredth(d) ==
    CHOOSE v \in 0..NormDen : NearBits(d, DecimalToDouble(v))

\* the zones of setup to the nearest hundredth, as the zone records hold them
SetupHundredths ==
    SubSeq([k \in 1..n |->
               << NearestHundredth(SetupRectsD[k].x),
                  NearestHundredth(SetupRectsD[k].y),
                  NearestHundredth(SetupRectsD[k].w),
                  NearestHundredth(SetupRectsD[k].h) >>], 1, n)

\* the active zones are the zones of setup
ZonesAreSetupRects ==
    /\ Len(activeZones) = n
    /\ \A k \in 1..n :
         << activeZones[k].normX, activeZones[k].normY,
            activeZones[k].normW, activeZones[k].normH >> = SetupHundredths[k]

\* every zone of setup is inside [0, 1] x [0, 1]: the coordinates are not
\* negative, x + w <= 1 and y + h <= 1
InsideFrameD ==
    \A k \in 1..n :
        /\ LeqBits(ZeroBits, SetupRectsD[k].x) /\ LeqBits(ZeroBits, SetupRectsD[k].y)
        /\ LeqBits(RightEdgesD[k], OneBits)
        /\ LeqBits(AddBits(SetupRectsD[k].y, SetupRectsD[k].h), OneBits)

\* a zone ends before the next one starts
NoOverlapD ==
    \A k \in 1..(n - 1) :
        /\ LeqBits(RightEdgesD[k], SetupRectsD[k + 1].x)
        /\ RightEdgesD[k] # SetupRectsD[k + 1].x

\* each zone starts exactly the padding after the end of the zone before
GapsArePaddingD ==
    \A k \in 1..(n - 1) : SetupRectsD[k + 1].x = AfterPaddingD[k]

\* the same, up to Epsilon
GapsNearPaddingD ==
    \A k \in 1..(n - 1) : NearBits(SetupRectsD[k + 1].x, AfterPaddingD[k])

\* the two margins are equal up to Epsilon
MarginsNearD == NearBits(MarginsD[1], MarginsD[2])

\* C17 as stated: the 5 zones of setup are inside the normalized frame, do
\* not overlap horizontally, each zone starts exactly the padding after the
\* end of the one before, and the left margin of the first zone is equal to
\* the right margin of the last zone.
C17_ZonesExactlySpaced ==
    sketch = "zones" =>
        /\ ZonesAreSetupRects
        /\ InsideFrameD
        /\ NoOverlapD
        /\ GapsArePaddingD
        /\ MarginsD[1] = MarginsD[2]

\* C17, amended: the 5 zones of setup are inside the normalized frame and do
\* not overlap horizontally; each zone starts the padding after the end of
\* the one before, and the two margins are equal, up to the rounding of
\* double arithmetic (at most 2^-52).
C17_ZonesSpacedUpToRounding ==
    sketch = "zones" =>
        /\ ZonesAreSetupRects
        /\ InsideFrameD
        /\ NoOverlapD
        /\ GapsNearPaddingD
        /\ MarginsNearD

\* after setup, with a gap that is not the padding and margins that differ
C17_Witness ==
    /\ sketch = "zones" /\ handler = "setup"
    /\ ZonesAreSetupRects
    /\ ~GapsArePaddingD
    /\ MarginsD[1] # MarginsD[2]

\* the normalized rectangle x, y, w, h lies inside the frame
InsideNormFrame(x, y, w, h) ==
    /\ x >= 0 /\ y >= 0 /\ w >= 0 /\ h >= 0
    /\ x + w <= NormDen
    /\ y + h <= NormDen

\* the pixel rectangle r lies inside the drawing area, width / 2 by height / 2
InsideDrawingArea(r) ==
    /\ Len(r) = 4
    /\ 0 <= r[1] /\ r[1] + r[3] <= width \div 2
    /\ 0 <= r[2] /\ r[2] + r[4] <= height \div 2

\* C18: in a frame, the rect() call made for a zone whose normalized
\* rectangle lies inside the frame has a pixel rectangle inside the drawing
\* area: 0 <= temp_x, temp_x + temp_w <= width / 2, 0 <= temp_y and temp_y +
\* temp_h <= height / 2; and so has the rect() call made for a blob whose
\* bounding box lies inside the frame.
C18_FlooredRectInsideDrawingArea ==
    DrewFrame =>
        /\ sketch = "zones" =>
             \A k \in 1..Len(activeZones) :
                InsideNormFrame(activeZones[k].normX, activeZones[k].normY,
                                activeZones[k].normW, activeZones[k].normH) =>
                    \A j \in CallsOf("activeZones.read") :
                        calls[j].a = <<k - 1>> =>
                            /\ calls[j + 1].f = "rect"
                            /\ InsideDrawingArea(calls[j + 1].a)
        /\ sketch = "blobs" =>
             \A k \in 1..Len(blobs) :
                InsideNormFrame(blobs[k].normRectX, blobs[k].normRectY,
                                blobs[k].normRectW, blobs[k].normRectH) =>
                    \A j \in CallsOf("blobs.read") :
                        calls[j].a = <<k - 1>> =>
                            /\ calls[j + 1].f = "rect"
                            /\ InsideDrawingArea(calls[j + 1].a)

\* a frame with a zone at the right edge of the frame, 0.99 + 0.01: its
\* pixel rectangle is floor(316.8) = 316 and floor(3.2) = 3 wide
C18_Witness ==
    /\ sketch = "zones" /\ DrewFrame
    /\ \E k \in 1..Len(activeZones) :
         /\ activeZones[k].normX = 99 /\ activeZones[k].normW = 1
         /\ InsideNormFrame(activeZones[k].normX, activeZones[k].normY,
                            activeZones[k].normW, activeZones[k].normH)
         /\ \E j \in CallsOf("activeZones.read") :
              /\ calls[j].a = <<k - 1>>
              /\ calls[j + 1].a[1] = 316
              /\ calls[j + 1].a[3] = 3

====
